---- MODULE Spec2Model ----
(***************************************************************************)
(* State-machine model of the modem time-service clock driver              *)
(* (ntpd/refclock_modem.c): the call session automaton, its one-second     *)
(* timer, the poll entry point, the close sequence, the reassembly of      *)
(* lines from the bytes received, and the timecode parser.                 *)
(*                                                                         *)
(* Every handler of the driver is an operator from a session record to a   *)
(* session record, written branch by branch after the C code; an action    *)
(* packs the variables into a record, applies the handler and unpacks the  *)
(* result.  The variables out, ev and proc hold what the last handler      *)
(* wrote to the device, reported, and handed to the clock filter.          *)
(***************************************************************************)
EXTENDS Integers, Sequences, FiniteSets, TLC

(***************************************************************************)
(* Program constants.                                                      *)
(***************************************************************************)
MODE_BACKUP == 0
MODE_AUTO == 1
MODE_MANUAL == 2

LENACTS == 50
LENUSNO == 20
LENPTB == 78
LENTYPE0 == 22
LENTYPE2 == 24

SETUP == 3
REDIAL == 30
ANSWER == 60
TIMECODE == 60
MAXCODE == 20
ACTSMIN == 10

S_IDLE == "S_IDLE"
S_SETUP == "S_SETUP"
S_CONNECT == "S_CONNECT"
S_MSG == "S_MSG"

LEAP_NOWARNING == "LEAP_NOWARNING"
LEAP_ADDSECOND == "LEAP_ADDSECOND"
LEAP_DELSECOND == "LEAP_DELSECOND"
LEAP_NOTINSYNC == "LEAP_NOTINSYNC"

REFID == "NONE"
REFACTS == "NIST"
REFUSNO == "USNO"
REFPTB == "PTB"
REFTYPE == "GPS"

modem_setup == "ATB1&C0&D2E0L1M1Q0V1Y1"

\* The end sentinel of the phone list, and the value of a closed descriptor.
NULL == "NULL"
NOFD == -1
\* The descriptor refclock_open returns on success.
OPENFD == 3

(***************************************************************************)
(* Bounds of the model.                                                    *)
(***************************************************************************)
\* Longest phone list tried.
MaxPhones == 2
\* Size of the line buffer up->buf.  BMAX is defined in a header outside the
\* driver's source file; the model takes a buffer that just holds the
\* 20-character timecode.
BMAX == 23
\* Most chunks received on one stream, and most pieces in a chunk.
MaxChunks == 2
MaxPieces == 2

(***************************************************************************)
(* Program state.                                                          *)
(***************************************************************************)
VARIABLES
    state,      \* up->state
    timer,      \* up->timer
    retry,      \* up->retry
    msgcnt,     \* up->msgcnt
    fd,         \* pp->io.fd
    dtr,        \* the modem's DTR line (TIOCMBIS / TIOCMBIC)
    flag1,      \* pp->sloppyclockflag & CLK_FLAG1: force a call
    flag2,      \* pp->sloppyclockflag & CLK_FLAG2: port locking
    lock,       \* owner of the lock file: "none", "self" or "other"
    ttl,        \* peer->cfg.ttl: the calling program mode
    sys_phone,  \* the phone list, without its NULL sentinel
    pp,         \* the time fields of struct refclockproc
    tstamp,     \* up->tstamp: the on-time timestamp
    buf,        \* up->buf from its start to up->bufptr
    clock,      \* the time of day, counted in chunks received
    rcvd,       \* every byte the device has delivered
    lines,      \* every line handed to modem_message by modem_receive
    alive,      \* FALSE once modem_shutdown has freed the unit
    out,        \* what the last handler wrote to the device
    ev,         \* what the last handler reported
    proc        \* the samples the last handler gave to refclock_process

vars == <<state, timer, retry, msgcnt, fd, dtr, flag1, flag2, lock, ttl,
          sys_phone, pp, tstamp, buf, clock, rcvd, lines, alive, out, ev,
          proc>>

\* pp as modem_start leaves it (emalloc_zero'd fields, default refid).
pp0 == [year |-> 0, day |-> 0, hour |-> 0, minute |-> 0, second |-> 0,
        nsec |-> 0, leap |-> LEAP_NOWARNING, refid |-> REFID, lastrec |-> 0]

\* sys_phone[i] of the C code: 0-based, NULL at the end of the list.
Phone(i) == IF i < Len(sys_phone) THEN sys_phone[i + 1]
            ELSE IF i = Len(sys_phone) THEN NULL ELSE "out of bounds"

\* The session as one record; the outputs of the handler start empty.
St == [state |-> state, timer |-> timer, retry |-> retry, msgcnt |-> msgcnt,
       fd |-> fd, dtr |-> dtr, flag1 |-> flag1, flag2 |-> flag2,
       lock |-> lock, pp |-> pp, tstamp |-> tstamp, buf |-> buf,
       lines |-> lines, out |-> <<>>, ev |-> <<>>, proc |-> <<>>]

Set(s) ==
    /\ state' = s.state
    /\ timer' = s.timer
    /\ retry' = s.retry
    /\ msgcnt' = s.msgcnt
    /\ fd' = s.fd
    /\ dtr' = s.dtr
    /\ flag1' = s.flag1
    /\ flag2' = s.flag2
    /\ lock' = s.lock
    /\ pp' = s.pp
    /\ tstamp' = s.tstamp
    /\ buf' = s.buf
    /\ lines' = s.lines
    /\ out' = s.out
    /\ ev' = s.ev
    /\ proc' = s.proc
    /\ UNCHANGED <<ttl, sys_phone>>

Write(s, x) == [s EXCEPT !.out = Append(@, x)]
Report(s, x) == [s EXCEPT !.ev = Append(@, x)]

(***************************************************************************)
(* Lines.  A complete line handed to modem_message is described by what    *)
(* the code reads of it: its length (strlen), its first token (the text    *)
(* before the first white space), the number of conversions the sscanf of  *)
(* its length class makes on it, and the values those conversions yield.   *)
(***************************************************************************)
Line0 == [len |-> 0, tok |-> "", nconv |-> 0, year |-> 0, month |-> 1,
          mday |-> 1, yday |-> 0, hour |-> 0, minute |-> 0, second |-> 0,
          msec |-> 0, leap |-> 0, flag |-> " ", leapdir |-> " ",
          leapmonth |-> 0, synchar |-> " ", leapchar |-> " "]

\* A modem result code or other short text: its token and its length.
Text(tok, len) == [Line0 EXCEPT !.tok = tok, !.len = len]

\* Number of conversions each format's sscanf must make.
NCONV_ACTS == 13
NCONV_USNO == 6
NCONV_PTB == 12
NCONV_TYPE0 == 7
NCONV_TYPE2 == 11

(***************************************************************************)
(* ymd2yd: day of the year of a calendar date (libntp).                    *)
(***************************************************************************)
IsLeapYear(y) == (y % 4 = 0 /\ y % 100 # 0) \/ y % 400 = 0

DaysBefore == <<0, 31, 59, 90, 120, 151, 181, 212, 243, 273, 304, 334>>

ymd2yd(y, m, d) == DaysBefore[m] + d + (IF m > 2 /\ IsLeapYear(y) THEN 1 ELSE 0)

(***************************************************************************)
(* modem_close - close and prepare for the next call.                      *)
(***************************************************************************)
\* CloseDevice as it would be if the descriptor were not marked closed.
CloseDevice_KeepOpen(s) ==
    IF s.fd # NOFD THEN [s EXCEPT !.dtr = FALSE] ELSE s

\* The device part: drop DTR, io_closeclock, fd = -1.
CloseDevice(s) ==
    IF s.fd # NOFD THEN [s EXCEPT !.dtr = FALSE, !.fd = NOFD] ELSE s

\* The lock part: with port locking on, unlink(lockfile).
Unlock(s) ==
    IF s.flag2 THEN [s EXCEPT !.lock = "none"] ELSE s

\* Redial as it would be if the message count were not consulted.
Redial_NoCount(s) ==
    IF s.retry > 0 /\ Phone(s.retry) # NULL
    THEN [s EXCEPT !.state = S_IDLE, !.timer = REDIAL]
    ELSE [s EXCEPT !.state = S_IDLE, !.timer = 0]

\* The redial decision.
Redial(s) ==
    IF s.msgcnt = 0 /\ s.retry > 0 /\ Phone(s.retry) # NULL
    THEN [s EXCEPT !.state = S_IDLE, !.timer = REDIAL]
    ELSE [s EXCEPT !.state = S_IDLE, !.timer = 0]

modem_close(s) == Redial(Unlock(CloseDevice(s)))

(***************************************************************************)
(* modem_timecode - identify the service and parse the timecode message.   *)
(* acc is the answer of refclock_process.                                  *)
(***************************************************************************)
\* The tail of modem_timecode, after the switch: hand the sample over.
Finalize(s, acc) ==
    LET s0 == [s EXCEPT !.pp.lastrec = s.tstamp]
    IN IF s0.msgcnt = 0 THEN s0
       ELSE LET s1 == [s0 EXCEPT !.proc = Append(@, s0.pp)]
            IN IF ~acc THEN Report(s1, "CEVNT_BADTIME") ELSE s1

\* ActsHold as it would be with the count compared by <=.
ActsHold_OffByOne(flag, cnt) == flag # "#" /\ cnt <= ACTSMIN

\* The finalization rule of ACTS format A.
ActsHold(flag, cnt) == flag # "#" /\ cnt < ACTSMIN

\* Leap indicator of ACTS format A.
ActsLeap(leap) ==
    IF leap = 1 THEN LEAP_ADDSECOND
    ELSE IF leap = 2 THEN LEAP_DELSECOND ELSE LEAP_NOWARNING

\* PtbLeap as it would be if the month of the leap were not compared.
PtbLeap_AnyMonth(leapmonth, month, leapdir) ==
    IF leapdir = "+" THEN LEAP_ADDSECOND
    ELSE IF leapdir = "-" THEN LEAP_DELSECOND ELSE LEAP_NOWARNING

\* Leap indicator of the PTB/NPL format.
PtbLeap(leapmonth, month, leapdir) ==
    IF leapmonth = month
    THEN IF leapdir = "+" THEN LEAP_ADDSECOND
         ELSE IF leapdir = "-" THEN LEAP_DELSECOND ELSE LEAP_NOWARNING
    ELSE LEAP_NOWARNING

\* case LENACTS.  sscanf stores year, hour, minute, second as conversions
\* 2, 5, 6, 7 (month and day go to locals).
TimecodeActs(s, l, acc) ==
    LET s1 == [s EXCEPT !.pp.year = IF l.nconv >= 2 THEN l.year ELSE @,
                        !.pp.hour = IF l.nconv >= 5 THEN l.hour ELSE @,
                        !.pp.minute = IF l.nconv >= 6 THEN l.minute ELSE @,
                        !.pp.second = IF l.nconv >= 7 THEN l.second ELSE @]
    IN IF l.nconv # NCONV_ACTS THEN Report(s1, "CEVNT_BADREPLY")
       ELSE LET s2 == [s1 EXCEPT !.pp.day = ymd2yd(s1.pp.year, l.month, l.mday),
                                 !.pp.leap = ActsLeap(l.leap),
                                 !.pp.refid = REFACTS,
                                 !.msgcnt = @ + 1]
            IN IF ActsHold(l.flag, s2.msgcnt) THEN s2 ELSE Finalize(s2, acc)

\* TimecodeUsno as it would be if a line that fails to parse were counted.
TimecodeUsno_CountBad(s, l, acc) ==
    LET s1 == [s EXCEPT !.pp.day = IF l.nconv >= 2 THEN l.yday ELSE @,
                        !.pp.hour = IF l.nconv >= 3 THEN l.hour ELSE @,
                        !.pp.minute = IF l.nconv >= 4 THEN l.minute ELSE @,
                        !.pp.second = IF l.nconv >= 5 THEN l.second ELSE @,
                        !.msgcnt = @ + 1]
    IN IF l.nconv # NCONV_USNO THEN Report(s1, "CEVNT_BADREPLY")
       ELSE Finalize([s1 EXCEPT !.pp.leap = LEAP_NOWARNING,
                                !.pp.refid = REFUSNO], acc)

\* case LENUSNO.  sscanf stores day, hour, minute, second as conversions
\* 2, 3, 4, 5.
TimecodeUsno(s, l, acc) ==
    LET s1 == [s EXCEPT !.pp.day = IF l.nconv >= 2 THEN l.yday ELSE @,
                        !.pp.hour = IF l.nconv >= 3 THEN l.hour ELSE @,
                        !.pp.minute = IF l.nconv >= 4 THEN l.minute ELSE @,
                        !.pp.second = IF l.nconv >= 5 THEN l.second ELSE @]
    IN IF l.nconv # NCONV_USNO THEN Report(s1, "CEVNT_BADREPLY")
       ELSE Finalize([s1 EXCEPT !.pp.leap = LEAP_NOWARNING,
                                !.pp.refid = REFUSNO,
                                !.msgcnt = @ + 1], acc)

\* case LENPTB.  sscanf stores second, year, hour, minute as conversions
\* 1, 2, 5, 6.
TimecodePtb(s, l, acc) ==
    LET s1 == [s EXCEPT !.pp.second = IF l.nconv >= 1 THEN l.second ELSE @,
                        !.pp.year = IF l.nconv >= 2 THEN l.year ELSE @,
                        !.pp.hour = IF l.nconv >= 5 THEN l.hour ELSE @,
                        !.pp.minute = IF l.nconv >= 6 THEN l.minute ELSE @]
    IN IF l.nconv # NCONV_PTB THEN Report(s1, "CEVNT_BADREPLY")
       ELSE Finalize([s1 EXCEPT !.pp.leap = PtbLeap(l.leapmonth, l.month, l.leapdir),
                                !.pp.day = ymd2yd(s1.pp.year, l.month, l.mday),
                                !.pp.refid = REFPTB,
                                !.msgcnt = @ + 1], acc)

\* case LENTYPE0.  sscanf stores day, hour, minute, second as conversions
\* 2, 3, 4, 5.
TimecodeType0(s, l, acc) ==
    LET s1 == [s EXCEPT !.pp.day = IF l.nconv >= 2 THEN l.yday ELSE @,
                        !.pp.hour = IF l.nconv >= 3 THEN l.hour ELSE @,
                        !.pp.minute = IF l.nconv >= 4 THEN l.minute ELSE @,
                        !.pp.second = IF l.nconv >= 5 THEN l.second ELSE @]
    IN IF l.nconv # NCONV_TYPE0 THEN Report(s1, "CEVNT_BADREPLY")
       ELSE Finalize([s1 EXCEPT !.pp.leap = IF l.synchar # " " THEN LEAP_NOTINSYNC
                                            ELSE LEAP_NOWARNING,
                                !.pp.refid = REFTYPE,
                                !.msgcnt = @ + 1], acc)

\* case LENTYPE2.  sscanf stores year, day, hour, minute, second, nsec as
\* conversions 3 to 8.
TimecodeType2(s, l, acc) ==
    LET s1 == [s EXCEPT !.pp.year = IF l.nconv >= 3 THEN l.year ELSE @,
                        !.pp.day = IF l.nconv >= 4 THEN l.yday ELSE @,
                        !.pp.hour = IF l.nconv >= 5 THEN l.hour ELSE @,
                        !.pp.minute = IF l.nconv >= 6 THEN l.minute ELSE @,
                        !.pp.second = IF l.nconv >= 7 THEN l.second ELSE @,
                        !.pp.nsec = IF l.nconv >= 8 THEN l.msec ELSE @]
    IN IF l.nconv # NCONV_TYPE2 THEN Report(s1, "CEVNT_BADREPLY")
       ELSE Finalize([s1 EXCEPT !.pp.nsec = @ * 1000000,
                                !.pp.leap = IF l.synchar # " " THEN LEAP_NOTINSYNC
                                            ELSE IF l.leapchar = "L" THEN LEAP_ADDSECOND
                                            ELSE LEAP_NOWARNING,
                                !.pp.refid = REFTYPE,
                                !.msgcnt = @ + 1], acc)

\* TimecodeMark as it would be if an accepted on-time character were counted.
TimecodeMark_Count(s, l, acc) ==
    IF l.tok = "*" /\ s.msgcnt > 0
    THEN Finalize([s EXCEPT !.msgcnt = @ + 1], acc)
    ELSE s

\* case 1: the on-time character on a line by itself.
TimecodeMark(s, l, acc) ==
    IF l.tok = "*" /\ s.msgcnt > 0 THEN Finalize(s, acc) ELSE s

modem_timecode(s, l, acc) ==
    LET s0 == [s EXCEPT !.pp.nsec = 0]
    IN CASE l.len = 1 -> TimecodeMark(s0, l, acc)
         [] l.len = LENACTS -> TimecodeActs(s0, l, acc)
         [] l.len = LENUSNO -> TimecodeUsno(s0, l, acc)
         [] l.len = LENPTB -> TimecodePtb(s0, l, acc)
         [] l.len = LENTYPE0 -> TimecodeType0(s0, l, acc)
         [] l.len = LENTYPE2 -> TimecodeType2(s0, l, acc)
         [] OTHER -> s0

(***************************************************************************)
(* modem_timeout - called on timeout, and with S_IDLE to start a call.     *)
(* open is the outcome of refclock_open and io_addclock.                   *)
(***************************************************************************)
\* StartCall as it would be if it tested the head of the phone list.
StartCall_HeadTest(s) ==
    IF Phone(0) = NULL
    THEN [Write(s, "T") EXCEPT !.state = S_MSG, !.timer = TIMECODE]
    ELSE [Write(Write(Report(s, "SETUP"), modem_setup), "\r")
              EXCEPT !.state = S_SETUP, !.timer = SETUP]

\* Lines 536-560: the port is open; poll the device or set up the modem.
StartCall(s) ==
    IF Phone(s.retry) = NULL
    THEN [Write(s, "T") EXCEPT !.state = S_MSG, !.timer = TIMECODE]
    ELSE [Write(Write(Report(s, "SETUP"), modem_setup), "\r")
              EXCEPT !.state = S_SETUP, !.timer = SETUP]

\* OpenDevice as it would be if a failure went through the close sequence.
OpenDevice_Close(s, open) ==
    IF open = "openfail" THEN modem_close(Report(s, "modem: open fails"))
    ELSE IF open = "addfail" THEN modem_close(Report(s, "modem: addclock fails"))
    ELSE StartCall([s EXCEPT !.fd = OPENFD, !.msgcnt = 0, !.buf = <<>>])

\* Lines 515-534: open the device and link the I/O.
OpenDevice(s, open) ==
    IF open = "openfail" THEN Report(s, "modem: open fails")
    ELSE IF open = "addfail" THEN Report(s, "modem: addclock fails")
    ELSE StartCall([s EXCEPT !.fd = OPENFD, !.msgcnt = 0, !.buf = <<>>])

\* case S_IDLE: lock the port, open the device, send the first command.
TimeoutIdle(s, open) ==
    IF s.fd # NOFD THEN s
    ELSE IF s.flag2
         THEN IF s.lock # "none" THEN Report(s, "modem: port busy")
              ELSE OpenDevice([s EXCEPT !.lock = "self"], open)
         ELSE OpenDevice(s, open)

\* case S_MSG of the timeout switch.
TimeoutMsg(s) ==
    IF s.msgcnt = 0 THEN Report(s, "no timecodes")
    ELSE Report(s, "refclock_receive")

modem_timeout(s, dstate, open) ==
    CASE dstate = S_IDLE -> TimeoutIdle(s, open)
      [] dstate = S_SETUP -> modem_close(Report(s, "no modem"))
      [] dstate = S_CONNECT -> modem_close(Report(s, "no answer"))
      [] dstate = S_MSG -> modem_close(TimeoutMsg(s))
      [] OTHER -> modem_close(s)

(***************************************************************************)
(* modem_message - process a complete line.                                *)
(***************************************************************************)
\* Abort as it would be if the aborted attempt advanced the retry index.
Abort_Advance(s, l) ==
    modem_close(Report([s EXCEPT !.retry = @ + 1], l.tok))

\* Lines 454-458: other response; report it and close.
Abort(s, l) == modem_close(Report(s, l.tok))

\* Lines 407-418: dial the number.
Dial(s) ==
    [Write(Write(Report(s, "DIAL"), Phone(s.retry)), "\r")
        EXCEPT !.dtr = TRUE, !.retry = @ + 1,
               !.state = S_CONNECT, !.timer = ANSWER]

\* MessageSetup as it would be if every line but OK were ignored.
MessageSetup_Ignore(s, l) ==
    IF l.tok # "OK" THEN s ELSE Dial(s)

\* case S_SETUP.
MessageSetup(s, l) ==
    IF l.tok # "OK"
    THEN IF l.tok = modem_setup THEN s ELSE Abort(s, l)
    ELSE Dial(s)

\* MessageConnect as it would be if the message timeout were not armed.
MessageConnect_NoTimer(s, l) ==
    IF l.tok # "CONNECT" THEN Abort(s, l)
    ELSE [Report(s, l.tok) EXCEPT !.state = S_MSG]

\* case S_CONNECT.
MessageConnect(s, l) ==
    IF l.tok # "CONNECT" THEN Abort(s, l)
    ELSE [Report(s, l.tok) EXCEPT !.state = S_MSG, !.timer = TIMECODE]

\* MessageMsg as it would be if the line at msgcnt = MAXCODE were parsed.
MessageMsg_OneMore(s, l, acc) ==
    LET s1 == IF l.tok = "NO" THEN Report(s, l.tok) ELSE s
    IN IF s1.msgcnt <= MAXCODE THEN modem_timecode(s1, l, acc)
       ELSE modem_timeout(s1, S_MSG, "ok")

\* case S_MSG.
MessageMsg(s, l, acc) ==
    LET s1 == IF l.tok = "NO" THEN Report(s, l.tok) ELSE s
    IN IF s1.msgcnt < MAXCODE THEN modem_timecode(s1, l, acc)
       ELSE modem_timeout(s1, S_MSG, "ok")

\* modem_message as it would be if a line in the message state restarted
\* the timeout of that state.
modem_message_Rearm(s, l, acc) ==
    CASE s.state = S_SETUP -> MessageSetup(s, l)
      [] s.state = S_CONNECT -> MessageConnect(s, l)
      [] s.state = S_MSG ->
            LET r == MessageMsg(s, l, acc)
            IN IF r.state = S_MSG THEN [r EXCEPT !.timer = TIMECODE] ELSE r
      [] OTHER -> Abort(s, l)

modem_message(s, l, acc) ==
    CASE s.state = S_SETUP -> MessageSetup(s, l)
      [] s.state = S_CONNECT -> MessageConnect(s, l)
      [] s.state = S_MSG -> MessageMsg(s, l, acc)
      [] OTHER -> Abort(s, l)

(***************************************************************************)
(* modem_poll - called by the transmit routine.  sp is sys_peer: "none"    *)
(* (NULL), "self" (this peer) or "other".                                  *)
(***************************************************************************)
\* PollProceeds as it would be if backup mode required no system peer.
PollProceeds_NoSelf(mode, sp) ==
    CASE mode = MODE_MANUAL -> FALSE
      [] mode = MODE_AUTO -> TRUE
      [] mode = MODE_BACKUP -> sp = "none"
      [] OTHER -> TRUE

\* Whether the mode switch lets the poll through.
PollProceeds(mode, sp) ==
    CASE mode = MODE_MANUAL -> FALSE
      [] mode = MODE_AUTO -> TRUE
      [] mode = MODE_BACKUP -> sp = "none" \/ sp = "self"
      [] OTHER -> TRUE

\* PollIdle as it would be without the reset of the retry index.
PollIdle_NoReset(s, open) ==
    IF s.state = S_IDLE THEN modem_timeout(s, S_IDLE, open) ELSE s

\* Lines 693-697.
PollIdle(s, open) ==
    IF s.state = S_IDLE THEN modem_timeout([s EXCEPT !.retry = 0], S_IDLE, open)
    ELSE s

\* modem_poll as it would be without the test of the state.
modem_poll_AnyState(s, mode, sp, open) ==
    IF PollProceeds(mode, sp)
    THEN modem_timeout([s EXCEPT !.retry = 0], S_IDLE, open)
    ELSE s

modem_poll(s, mode, sp, open) ==
    IF PollProceeds(mode, sp) THEN PollIdle(s, open) ELSE s

(***************************************************************************)
(* modem_timer - called at one-second intervals.                           *)
(***************************************************************************)
\* TimerForce as it would be if flag1 were cleared only by a started call.
TimerForce_ClearOnStart(s, open) ==
    IF s.flag1
    THEN LET r == modem_timeout(s, S_IDLE, open)
         IN IF r.fd # NOFD THEN [r EXCEPT !.flag1 = FALSE] ELSE r
    ELSE s

\* timer == 0: force a call if flag1 is set.
TimerForce(s, open) ==
    IF s.flag1 THEN modem_timeout([s EXCEPT !.flag1 = FALSE], S_IDLE, open)
    ELSE s

\* TimerCount as it would be if the state machine were not run at zero.
TimerCount_NoTimeout(s, open) == [s EXCEPT !.timer = @ - 1]

\* timer != 0: count down and run the state machine at zero.
TimerCount(s, open) ==
    LET s1 == [s EXCEPT !.timer = @ - 1]
    IN IF s1.timer = 0 THEN modem_timeout(s1, s1.state, open) ELSE s1

modem_timer(s, open) ==
    IF s.timer = 0 THEN TimerForce(s, open) ELSE TimerCount(s, open)

(***************************************************************************)
(* modem_receive - receive data from the serial interface.  A byte is a    *)
(* string of one character; NUL stands for the zero byte.                  *)
(***************************************************************************)
LF == "\n"
CR == "\r"
NUL == "NUL"

\* iscntrl, isspace and isdigit on the bytes of the model.
IsCntrl(c) == c \in {NUL, CR, LF}
IsSpace(c) == c = " "
Digits == <<"0", "1", "2", "3", "4", "5", "6", "7", "8", "9">>
IsDigit(c) == \E d \in 1..10 : Digits[d] = c
DigitVal(c) == (CHOOSE d \in 1..10 : Digits[d] = c) - 1

\* The text of a sequence of printable bytes.
RECURSIVE Str(_)
Str(s) == IF s = <<>> THEN "" ELSE Head(s) \o Str(Tail(s))

\* Lines 381-384: everything from the first white space on is cut off.
RECURSIVE FirstToken(_)
FirstToken(s) ==
    IF s = <<>> \/ IsSpace(Head(s)) THEN <<>>
    ELSE <<Head(s)>> \o FirstToken(Tail(s))

\* sscanf: skip white space from position i.
RECURSIVE SkipSpace(_, _)
SkipSpace(s, i) ==
    IF i <= Len(s) /\ IsSpace(s[i]) THEN SkipSpace(s, i + 1) ELSE i

\* sscanf: read at most w digits from position i; v is the value so far.
RECURSIVE ReadDigits(_, _, _, _)
ReadDigits(s, i, w, v) ==
    IF w > 0 /\ i <= Len(s) /\ IsDigit(s[i])
    THEN ReadDigits(s, i + 1, w - 1, 10 * v + DigitVal(s[i]))
    ELSE [pos |-> i, val |-> v]

\* sscanf: the conversions %wd and %wlu at position i.
ScanInt(s, i, w) ==
    LET j == SkipSpace(s, i)
        r == ReadDigits(s, j, w, 0)
    IN [ok |-> r.pos > j, val |-> r.val, pos |-> r.pos]

\* sscanf: the conversion %ws at position i; pos is where it stops.
RECURSIVE WordEnd(_, _, _)
WordEnd(s, i, w) ==
    IF w > 0 /\ i <= Len(s) /\ ~IsSpace(s[i]) THEN WordEnd(s, i + 1, w - 1)
    ELSE i

ScanWord(s, i, w) ==
    LET j == SkipSpace(s, i)
    IN [ok |-> WordEnd(s, j, w) > j, pos |-> WordEnd(s, j, w)]

\* sscanf(str, "%5lu %3d %2d%2d%2d %3s", ...) of the USNO case: the line as
\* the parser reads it.
ScanUsno(s) ==
    LET mjd == ScanInt(s, 1, 5)
        day == ScanInt(s, mjd.pos, 3)
        hour == ScanInt(s, day.pos, 2)
        minute == ScanInt(s, hour.pos, 2)
        second == ScanInt(s, minute.pos, 2)
        utc == ScanWord(s, second.pos, 3)
        n == IF ~mjd.ok THEN 0
             ELSE IF ~day.ok THEN 1
             ELSE IF ~hour.ok THEN 2
             ELSE IF ~minute.ok THEN 3
             ELSE IF ~second.ok THEN 4
             ELSE IF ~utc.ok THEN 5 ELSE 6
    IN [Line0 EXCEPT !.len = Len(s), !.tok = Str(FirstToken(s)), !.nconv = n,
                     !.yday = IF n >= 2 THEN day.val ELSE 0,
                     !.hour = IF n >= 3 THEN hour.val ELSE 0,
                     !.minute = IF n >= 4 THEN minute.val ELSE 0,
                     !.second = IF n >= 5 THEN second.val ELSE 0]

\* sscanf: the literal text lit of the format must be next at position i.
Literal(s, i, lit) ==
    /\ i + Len(lit) - 1 <= Len(s)
    /\ \A k \in 1..Len(lit) : s[i + k - 1] = lit[k]

\* sscanf(str, "%c %3d %2d:%2d:%2d %cTZ=%2d", ...) of the Spectracom format
\* 0 case: the line as the parser reads it.
ScanType0(s) ==
    LET day == ScanInt(s, 2, 3)
        hour == ScanInt(s, day.pos, 2)
        minute == ScanInt(s, hour.pos + 1, 2)
        second == ScanInt(s, minute.pos + 1, 2)
        dst == SkipSpace(s, second.pos)
        tz == ScanInt(s, dst + 4, 2)
        n == IF s = <<>> THEN 0
             ELSE IF ~day.ok THEN 1
             ELSE IF ~hour.ok THEN 2
             ELSE IF ~Literal(s, hour.pos, <<":">>) \/ ~minute.ok THEN 3
             ELSE IF ~Literal(s, minute.pos, <<":">>) \/ ~second.ok THEN 4
             ELSE IF dst > Len(s) THEN 5
             ELSE IF ~Literal(s, dst + 1, <<"T", "Z", "=">>) \/ ~tz.ok THEN 6
             ELSE 7
    IN [Line0 EXCEPT !.len = Len(s), !.tok = Str(FirstToken(s)), !.nconv = n,
                     !.synchar = IF n >= 1 THEN s[1] ELSE " ",
                     !.yday = IF n >= 2 THEN day.val ELSE 0,
                     !.hour = IF n >= 3 THEN hour.val ELSE 0,
                     !.minute = IF n >= 4 THEN minute.val ELSE 0,
                     !.second = IF n >= 5 THEN second.val ELSE 0]

\* The line in up->buf as modem_message and modem_timecode read it.  The
\* buffer of the model holds no line of the length of the longer formats.
LineOf(s) ==
    IF Len(s) = LENUSNO THEN ScanUsno(s)
    ELSE IF Len(s) = LENTYPE0 THEN ScanType0(s)
    ELSE Text(Str(FirstToken(s)), Len(s))

\* refclock_gtraw: copy at most bmax - 1 bytes of the chunk.
gtraw(chunk, bmax) ==
    IF bmax <= 0 THEN <<>>
    ELSE SubSeq(chunk, 1, IF bmax - 1 > Len(chunk) THEN Len(chunk) ELSE bmax - 1)

\* The bytes the loop of line 333 visits: those before the first zero byte.
RECURSIVE UpToNul(_)
UpToNul(bytes) ==
    IF bytes = <<>> \/ Head(bytes) = NUL THEN <<>>
    ELSE <<Head(bytes)>> \o UpToNul(Tail(bytes))

\* Lines 346-348: take the timestamp and echo the on-time character.
Echo(s, c) ==
    LET s1 == [s EXCEPT !.tstamp = s.pp.lastrec]
    IN IF s1.fd # NOFD THEN Write(s1, c)
       ELSE Report(s1, "modem: write echo fails")

\* Lines 334-350: one byte of the chunk.
ReceiveByte(s, c, acc) ==
    IF c = LF
    THEN IF s.buf = <<>> THEN [s EXCEPT !.tstamp = s.pp.lastrec]
         ELSE modem_message([s EXCEPT !.buf = <<>>, !.lines = Append(@, s.buf)],
                            LineOf(s.buf), acc)
    ELSE IF ~IsCntrl(c)
         THEN LET s1 == [s EXCEPT !.buf = Append(@, c)]
              IN IF c = "*" \/ c = "#" THEN Echo(s1, c) ELSE s1
         ELSE s

RECURSIVE ReceiveLoop(_, _, _)
ReceiveLoop(s, bytes, acc) ==
    IF bytes = <<>> THEN s
    ELSE ReceiveLoop(ReceiveByte(s, Head(bytes), acc), Tail(bytes), acc)

\* The chunk arrives at time ts.
modem_receive(s, chunk, ts, acc) ==
    LET octets == BMAX - Len(s.buf)
        tbuf == gtraw(chunk, octets)
    IN ReceiveLoop([s EXCEPT !.pp.lastrec = ts], UpToNul(tbuf), acc)

(***************************************************************************)
(* Inputs.                                                                 *)
(***************************************************************************)
Modes == {MODE_BACKUP, MODE_AUTO, MODE_MANUAL}
SysPeers == {"none", "self", "other"}
OpenOutcomes == {"ok", "openfail", "addfail"}

PhoneBook == <<"ATDT1", "ATDT2", "ATDT3", "ATDT4">>
PhoneLists == {SubSeq(PhoneBook, 1, n) : n \in 0..MaxPhones}

\* Two times of day, as the fields a timecode line carries.
TimeA == [Line0 EXCEPT !.yday = 108, !.hour = 21, !.minute = 39, !.second = 15]
TimeB == [Line0 EXCEPT !.yday = 23, !.hour = 20, !.minute = 58, !.second = 51]

\* An ACTS format A line with all its conversions made.
Acts(flag, leap) ==
    [TimeA EXCEPT !.len = LENACTS, !.tok = "47999", !.nconv = NCONV_ACTS,
                  !.year = 90, !.month = 4, !.mday = 18,
                  !.leap = leap, !.flag = flag]

\* A USNO line carrying time t on which sscanf makes n conversions.
Usno(t, n) == [t EXCEPT !.len = LENUSNO, !.tok = "60000", !.nconv = n]

\* The on-time character on a line by itself.
Mark == Text("*", 1)

\* The modem's result codes, the setup echo and line noise.
OkLine == Text("OK", 2)
EchoLine == Text(modem_setup, 22)
ConnectLine == Text("CONNECT", 13)
BusyLine == Text("BUSY", 4)
NoCarrier == Text("NO", 10)
Noise == Text("x", 5)

ModemLines == {OkLine, EchoLine, ConnectLine, BusyLine, NoCarrier, Noise}

\* The lines of the call session specification.
CallLines == ModemLines \cup {Acts("#", 0), Acts("*", 0)}

\* The lines of the timecode specification.
UsnoLines == {Usno(TimeA, NCONV_USNO), Usno(TimeB, NCONV_USNO),
              Usno(TimeB, 3), Usno(TimeA, 0)}

\* A PTB/NPL line of 18 April 1990 that announces a leap second in
\* direction dir for the month lm, on which sscanf makes n conversions.
Ptb(dir, lm, n) ==
    [TimeA EXCEPT !.len = LENPTB, !.tok = "1990-04-18", !.nconv = n,
                  !.year = 1990, !.month = 4, !.mday = 18,
                  !.leapdir = dir, !.leapmonth = lm]

\* A Spectracom format 0 line with synchronization character sync.
Type0(sync, n) ==
    [TimeA EXCEPT !.len = LENTYPE0, !.tok = sync, !.nconv = n,
                  !.synchar = sync]

\* A Spectracom format 2 line with synchronization and leap characters.
Type2(sync, lc, n) ==
    [TimeA EXCEPT !.len = LENTYPE2, !.tok = sync, !.nconv = n, !.year = 90,
                  !.msec = 500, !.synchar = sync, !.leapchar = lc]

\* The lines of each format with all their conversions made.
ActsLines == {Acts("*", 0)} \cup {Acts("#", lp) : lp \in 0..3}
PtbLines == {Ptb(dir, lm, NCONV_PTB) : dir \in {"+", "-", " "}, lm \in {4, 6}}
Type0Lines == {Type0(sync, NCONV_TYPE0) : sync \in {" ", "?"}}
Type2Lines == {Type2(sync, lc, NCONV_TYPE2) : sync \in {" ", "?"},
                                              lc \in {" ", "L"}}

\* Lines of the length of a format on which sscanf stops early.
BadLines ==
    {Usno(TimeA, 3), Usno(TimeA, 0), [Acts("#", 0) EXCEPT !.nconv = 7],
     Ptb("+", 4, 6), Type0(" ", 3), Type2(" ", "L", 5)}

GoodLines ==
    {Usno(TimeA, NCONV_USNO)}
        \cup ActsLines \cup PtbLines \cup Type0Lines \cup Type2Lines

\* Lines the parser ignores: an on-time character '#' by itself, and lines
\* of no format's length.
IgnoredLines == {Text("#", 1), NoCarrier, Noise}

TimecodeLines ==
    UsnoLines \cup {Mark, Text("#", 1), NoCarrier, Noise}
              \cup {Acts(f, 0) : f \in {"#", "*"}}

\* The lines of the format specification.
FormatLines == GoodLines \cup BadLines \cup IgnoredLines \cup {Mark}

\* The USNO timecode as bytes, and the pieces a chunk is made of: the two
\* halves of the timecode, the on-time characters, the line feed, a carriage
\* return and a zero byte.
UsnoText == <<"6", "0", "0", "0", "0", " ", "1", "0", "8", " ",
              "2", "1", "3", "9", "1", "5", " ", "U", "T", "C">>

Pieces == {SubSeq(UsnoText, 1, 10), SubSeq(UsnoText, 11, 20),
           <<"*">>, <<"#">>, <<LF>>, <<CR>>, <<NUL>>}

RECURSIVE ChunksOf(_)
ChunksOf(n) ==
    IF n = 0 THEN {<<>>}
    ELSE ChunksOf(n - 1) \cup {c \o p : c \in ChunksOf(n - 1), p \in Pieces}

Chunks == ChunksOf(MaxPieces) \ {<<>>}

(***************************************************************************)
(* Actions: one per entry point of the driver and per outside event.       *)
(***************************************************************************)
\* The state modem_start leaves, but for the configuration.
Start ==
    /\ state = S_IDLE
    /\ timer = 0
    /\ retry = 0
    /\ msgcnt = 0
    /\ fd = NOFD
    /\ dtr = FALSE
    /\ flag1 = FALSE
    /\ lock = "none"
    /\ pp = pp0
    /\ tstamp = 0
    /\ buf = <<>>
    /\ clock = 0
    /\ rcvd = <<>>
    /\ lines = <<>>
    /\ alive = TRUE
    /\ out = <<>>
    /\ ev = <<>>
    /\ proc = <<>>

\* The system poll, with sys_peer = sp.
PollWith(sp) ==
    /\ alive
    /\ \E open \in OpenOutcomes : Set(modem_poll(St, ttl, sp, open))
    /\ UNCHANGED <<alive, clock, rcvd>>

Poll == \E sp \in SysPeers : PollWith(sp)

\* One second passes.
Tick ==
    /\ alive
    /\ \E open \in OpenOutcomes : Set(modem_timer(St, open))
    /\ UNCHANGED <<alive, clock, rcvd>>

\* The complete line l arrives from the open device; refclock_process
\* answers acc.
Message(l, acc) ==
    /\ alive
    /\ fd # NOFD
    /\ Set(modem_message(St, l, acc))
    /\ UNCHANGED <<alive, clock, rcvd>>

\* A chunk of bytes arrives from the open device.
ReceiveChunk(c) ==
    /\ alive
    /\ fd # NOFD
    /\ clock < MaxChunks
    /\ Set(modem_receive(St, c, clock + 1, TRUE))
    /\ clock' = clock + 1
    /\ rcvd' = rcvd \o c
    /\ UNCHANGED alive

Receive == \E c \in Chunks : ReceiveChunk(c)

\* The operator sets flag1 with ntpq.
SetFlag1 ==
    /\ alive
    /\ ~flag1
    /\ flag1' = TRUE
    /\ UNCHANGED <<state, timer, retry, msgcnt, fd, dtr, flag2, lock, ttl,
                   sys_phone, pp, tstamp, buf, clock, rcvd, lines, alive,
                   out, ev, proc>>

\* Another program that shares the port takes or releases the lock file.
OtherLock ==
    /\ alive
    /\ flag2
    /\ \/ lock = "none" /\ lock' = "other"
       \/ lock = "other" /\ lock' = "none"
    /\ UNCHANGED <<state, timer, retry, msgcnt, fd, dtr, flag1, flag2, ttl,
                   sys_phone, pp, tstamp, buf, clock, rcvd, lines, alive,
                   out, ev, proc>>

\* modem_shutdown: the close sequence, then the unit is freed.
Shutdown ==
    /\ alive
    /\ Set(modem_close(St))
    /\ alive' = FALSE
    /\ UNCHANGED <<clock, rcvd>>

(***************************************************************************)
(* Spec: the call session in automatic mode with every phone list, port    *)
(* locking off, the clock filter accepting every sample.                   *)
(***************************************************************************)
Init ==
    /\ Start
    /\ flag2 = FALSE
    /\ ttl = MODE_AUTO
    /\ sys_phone \in PhoneLists

CallMessage == \E l \in CallLines : Message(l, TRUE)

Next ==
    \/ Poll
    \/ Tick
    \/ CallMessage
    \/ SetFlag1
    \/ Shutdown

Spec == Init /\ [][Next]_vars

(***************************************************************************)
(* SpecPoll: the call session in every mode, with the modem's lines only   *)
(* (no timecode arrives).                                                  *)
(***************************************************************************)
InitPoll ==
    /\ Start
    /\ flag2 = FALSE
    /\ ttl \in Modes
    /\ sys_phone \in PhoneLists

ModemMessage == \E l \in ModemLines : Message(l, TRUE)

NextPoll ==
    \/ Poll
    \/ Tick
    \/ ModemMessage
    \/ SetFlag1

SpecPoll == InitPoll /\ [][NextPoll]_vars

(***************************************************************************)
(* SpecMsg: the timecode parser on a directly connected device, within one *)
(* second (no tick), the clock filter accepting or rejecting.              *)
(***************************************************************************)
InitMsg ==
    /\ Start
    /\ flag2 = FALSE
    /\ ttl = MODE_AUTO
    /\ sys_phone = <<>>

TimecodeMessage == \E l \in TimecodeLines, acc \in BOOLEAN : Message(l, acc)

NextMsg ==
    \/ Poll
    \/ TimecodeMessage

SpecMsg == InitMsg /\ [][NextMsg]_vars

(***************************************************************************)
(* SpecFormat: the timecode parser on a directly connected device with the *)
(* lines of every format, the clock filter accepting every sample.         *)
(***************************************************************************)
FormatMessage == \E l \in FormatLines : Message(l, TRUE)

NextFormat ==
    \/ Poll
    \/ FormatMessage

SpecFormat == InitMsg /\ [][NextFormat]_vars

(***************************************************************************)
(* SpecLock: the call session in automatic mode with port locking on, the  *)
(* port shared with another program, to the shutdown of the unit.          *)
(***************************************************************************)
InitLock ==
    /\ Start
    /\ flag2 = TRUE
    /\ ttl = MODE_AUTO
    /\ sys_phone \in PhoneLists

\* The lines of the locking specification.
LockLines == {OkLine, ConnectLine, Noise, Acts("#", 0)}

LockMessage == \E l \in LockLines : Message(l, TRUE)

NextLock ==
    \/ Poll
    \/ Tick
    \/ LockMessage
    \/ SetFlag1
    \/ OtherLock
    \/ Shutdown

SpecLock == InitLock /\ [][NextLock]_vars

(***************************************************************************)
(* SpecFramer: the bytes of a directly connected device, in chunks.        *)
(***************************************************************************)
InitFramer ==
    /\ Start
    /\ flag2 = FALSE
    /\ ttl = MODE_AUTO
    /\ sys_phone = <<>>

NextFramer ==
    \/ Poll
    \/ Receive

SpecFramer == InitFramer /\ [][NextFramer]_vars

(***************************************************************************)
(* SpecBusy: the call session in every mode, the modem's answers arriving  *)
(* as bytes, whole or in fragments, while polls go on.                     *)
(***************************************************************************)
\* The modem's OK, the first bytes of its CONNECT, and the on-time character
\* of a timecode.
BusyChunks == {<<"O", "K", CR, LF>>, <<"C", "O", "N">>, <<"*">>}

BusyReceive == \E c \in BusyChunks : ReceiveChunk(c)

NextBusy ==
    \/ Poll
    \/ Tick
    \/ SetFlag1
    \/ BusyReceive

SpecBusy == InitPoll /\ [][NextBusy]_vars

(***************************************************************************)
(* SpecTicks: one forced call and what follows it when the one-second      *)
(* timer keeps running: flag1 is set in the configuration, no poll and no  *)
(* further flag1 arrive.                                                   *)
(***************************************************************************)
InitTicks ==
    /\ state = S_IDLE /\ timer = 0 /\ retry = 0 /\ msgcnt = 0
    /\ fd = NOFD /\ dtr = FALSE
    /\ flag1 = TRUE /\ flag2 = FALSE /\ lock = "none"
    /\ ttl = MODE_AUTO
    /\ sys_phone \in PhoneLists
    /\ pp = pp0 /\ tstamp = 0 /\ buf = <<>>
    /\ clock = 0 /\ rcvd = <<>> /\ lines = <<>>
    /\ alive = TRUE
    /\ out = <<>> /\ ev = <<>> /\ proc = <<>>

NextTicks ==
    \/ Tick
    \/ CallMessage

SpecTicks == InitTicks /\ [][NextTicks]_vars /\ WF_vars(Tick)

(***************************************************************************)
(* Properties.                                                             *)
(***************************************************************************)
\* The last handler opened the device and sent its first command.
JustStarted == out = <<"T">> \/ out = <<modem_setup, "\r">>

\* The step leaves Idle for Setup or for the message state.
LeavesIdle == state = S_IDLE /\ state' \in {S_SETUP, S_MSG}

RedialDue == msgcnt = 0 /\ retry > 0 /\ Phone(retry) # NULL

\* The step ran the close sequence: it closed the device, or shut down.
Closes == (fd # NOFD /\ fd' = NOFD) \/ (alive /\ ~alive')

\* C2: after every execution of the close sequence the state is Idle, and
\* the timer is 30 if and only if msgcnt = 0, retry > 0 and the phone list
\* has an entry at retry; in every other case it is 0.
C2_RedialGating ==
    [][Closes => /\ state' = S_IDLE
                 /\ timer' = REDIAL <=> RedialDue'
                 /\ ~RedialDue' => timer' = 0]_vars

\* C2 witness: a failed first call has just been closed with a second
\* number left to dial.
C2_Witness ==
    state = S_IDLE /\ fd = NOFD /\ timer = REDIAL /\ retry = 1
    /\ ev = <<"BUSY">>

\* C3: from Idle with a phone list, a poll that opens the device sends the
\* setup string and waits 3 s in Setup; OK then dials the first number and
\* waits 60 s in Connecting; CONNECT then starts the 60 s message state; a
\* format A line with flag '#' as the first timecode then forwards exactly
\* one sample, stays in the message state and leaves msgcnt = 1.
C3_EndToEnd ==
    [][/\ (Poll /\ state = S_IDLE /\ fd = NOFD /\ sys_phone # <<>> /\ fd' # NOFD)
            => /\ out' = <<modem_setup, "\r">>
               /\ state' = S_SETUP /\ timer' = SETUP
               /\ retry' = 0 /\ msgcnt' = 0
       /\ (state = S_SETUP /\ retry = 0 /\ msgcnt = 0 /\ Message(OkLine, TRUE))
            => /\ out' = <<sys_phone[1], "\r">>
               /\ state' = S_CONNECT /\ timer' = ANSWER /\ msgcnt' = 0
       /\ (state = S_CONNECT /\ msgcnt = 0 /\ Message(ConnectLine, TRUE))
            => state' = S_MSG /\ timer' = TIMECODE /\ msgcnt' = 0
       /\ (state = S_MSG /\ msgcnt = 0 /\ Message(Acts("#", 0), TRUE))
            => /\ Len(proc') = 1
               /\ state' = S_MSG /\ timer' = timer /\ msgcnt' = 1]_vars

\* C3 witness: after a dialled call the first timecode line, of format A,
\* has been forwarded.
C3_Witness ==
    /\ state = S_MSG /\ msgcnt = 1 /\ retry = 1 /\ dtr
    /\ Len(proc) = 1 /\ proc[1].refid = REFACTS

\* C4, as stated: in the message state a valid USNO line by itself forwards
\* nothing, and the '*' line that follows forwards exactly one sample, which
\* carries the fields of the USNO line.
C4_UsnoDeferred ==
    [][\A acc \in BOOLEAN :
        /\ \A l \in UsnoLines :
              (state = S_MSG /\ msgcnt < MAXCODE /\ l.nconv = NCONV_USNO
                 /\ Message(l, acc)) => proc' = <<>>
        /\ (state = S_MSG /\ msgcnt > 0 /\ msgcnt < MAXCODE
              /\ proc = <<>> /\ pp.refid = REFUSNO /\ Message(Mark, acc))
             => proc' = <<pp>>]_vars

\* C5: a valid format A line whose flag is not '#' and which is not yet the
\* 10th accepted line only increments msgcnt and forwards nothing; the line
\* that brings msgcnt to 10 or more forwards a sample whatever its flag; a
\* line with flag '#' forwards a sample whatever the count.
C5_ActsNoise ==
    [][\A f \in {"#", "*"} :
        (state = S_MSG /\ msgcnt < MAXCODE /\ Message(Acts(f, 0), TRUE))
           => /\ msgcnt' = msgcnt + 1
              /\ (f # "#" /\ msgcnt' < ACTSMIN) => proc' = <<>>
              /\ msgcnt' >= ACTSMIN => Len(proc') = 1
              /\ f = "#" => Len(proc') = 1]_vars

\* C5 witness: the 10th accepted line has been forwarded.
C5_Witness ==
    state = S_MSG /\ msgcnt = ACTSMIN /\ Len(proc) = 1 /\ proc[1].refid = REFACTS

\* C6, as stated: a NO CARRIER line arriving in the message state aborts the
\* call: after it the state is Idle and the device is closed.
C6_NoCarrierAborts ==
    [][(state = S_MSG /\ Message(NoCarrier, TRUE))
          => state' = S_IDLE /\ fd' = NOFD]_vars

JustDialled == ev = <<"DIAL">>

\* C8: retry never passes the end sentinel of the phone list, and a dial
\* command is only ever written for an entry of the list.
C8_Sentinel ==
    /\ retry \in 0..Len(sys_phone)
    /\ JustDialled => /\ retry > 0
                      /\ out = <<sys_phone[retry], "\r">>

\* C8 witness: the last number of a list of two has just been dialled.
C8_Witness ==
    JustDialled /\ Len(sys_phone) = 2 /\ retry = 2 /\ state = S_CONNECT

\* C9, as stated: a successful Idle trigger writes 'T' and enters the
\* message state (timer 60) if and only if the phone list is empty, and with
\* a phone list it writes the setup string and enters Setup (timer 3).
C9_DirectIffEmpty ==
    JustStarted =>
        /\ (out = <<"T">> /\ state = S_MSG /\ timer = TIMECODE) <=> sys_phone = <<>>
        /\ sys_phone # <<>> =>
              out = <<modem_setup, "\r">> /\ state = S_SETUP /\ timer = SETUP

\* The session fields a poll may touch are unchanged.
SessionUnchanged == UNCHANGED <<state, timer, retry, msgcnt, fd>>

\* The Idle trigger ran: retry is 0, and either the call started or the
\* failure to open was reported.
TriggerRan ==
    /\ retry' = 0
    /\ \/ state' \in {S_SETUP, S_MSG} /\ fd' # NOFD /\ JustStarted'
       \/ state' = S_IDLE /\ ev' \in {<<"modem: open fails">>,
                                      <<"modem: addclock fails">>,
                                      <<"modem: port busy">>}

\* C10: in manual mode a poll changes no session field; in automatic mode a
\* poll in Idle always runs the Idle trigger; in backup mode a poll in Idle
\* runs the Idle trigger when there is no system peer or it is this peer,
\* and changes nothing when another peer is selected.
C10_PollGating ==
    [][\A sp \in SysPeers :
        PollWith(sp) =>
           /\ ttl = MODE_MANUAL => SessionUnchanged
           /\ (ttl = MODE_AUTO /\ state = S_IDLE) => TriggerRan
           /\ (ttl = MODE_BACKUP /\ state = S_IDLE /\ sp \in {"none", "self"})
                 => TriggerRan
           /\ (ttl = MODE_BACKUP /\ sp = "other") => SessionUnchanged]_vars

\* C10 witness: in backup mode a call has just been started from the first
\* number.
C10_Witness ==
    ttl = MODE_BACKUP /\ state = S_SETUP /\ JustStarted /\ retry = 0 /\ ~flag1

\* The Idle trigger ran: either the call started or the failure to lock or
\* to open the port was reported, and then nothing else changed.
IdleTriggerRan ==
    \/ state' \in {S_SETUP, S_MSG} /\ fd' # NOFD /\ JustStarted' /\ msgcnt' = 0
    \/ /\ ev' \in {<<"modem: open fails">>, <<"modem: addclock fails">>,
                   <<"modem: port busy">>}
       /\ UNCHANGED <<state, timer, msgcnt, fd>>

\* C11: a tick that finds timer = 0 and flag1 set clears flag1 and runs the
\* Idle trigger in the same tick, also when the attempt fails on a busy port
\* or on the open; a tick that finds timer > 0 leaves flag1 as it is, and
\* while more than a second remains it only decrements the timer.
C11_ForcedCall ==
    [][Tick => /\ (timer = 0 /\ flag1)
                    => ~flag1' /\ retry' = retry /\ IdleTriggerRan
               /\ (timer = 0 /\ ~flag1) => UNCHANGED <<state, timer, fd, flag1>>
               /\ timer > 0 => flag1' = flag1
               /\ timer > 1 => /\ timer' = timer - 1
                               /\ UNCHANGED <<state, retry, msgcnt, fd, lock>>
                               /\ out' = <<>> /\ ev' = <<>>]_vars

\* C11 witness: a forced call found the port busy, and flag1 is cleared.
C11_Witness ==
    /\ ~flag1 /\ state = S_IDLE /\ timer = 0 /\ fd = NOFD /\ lock = "other"
    /\ ev = <<"modem: port busy">> /\ retry = 1

\* The last handler reported that the port could not be locked or opened.
OpenFailed ==
    ev \in {<<"modem: open fails">>, <<"modem: addclock fails">>,
            <<"modem: port busy">>}

\* C12: when the Idle trigger finds the port locked by another program, or
\* cannot open the device, the state stays Idle, the device stays closed,
\* nothing is written, msgcnt keeps its value, and the timer keeps the value
\* it had when the trigger ran (0 after the tick that ran it): no redial is
\* scheduled by the failure.
C12_OpenFailure ==
    [][((Poll \/ Tick) /\ OpenFailed') =>
         /\ state = S_IDLE /\ state' = S_IDLE
         /\ fd = NOFD /\ fd' = NOFD
         /\ out' = <<>> /\ proc' = <<>>
         /\ msgcnt' = msgcnt
         /\ Poll => timer' = timer
         /\ Tick => timer' = 0 /\ timer \in {0, 1}
         /\ (lock = "other") => ev' = <<"modem: port busy">>]_vars

\* C12 witness: the redial of the second number found the port busy; the
\* redial timer is not armed again.
C12_Witness ==
    /\ ev = <<"modem: port busy">> /\ state = S_IDLE /\ fd = NOFD
    /\ timer = 0 /\ retry = 1 /\ msgcnt = 0 /\ flag1 /\ lock = "other"

\* C15: in the message state a line of the length of a format on which the
\* field extraction fails is answered with a bad-reply report, forwards no
\* sample, and leaves state, timer, retry and msgcnt as they were.
C15_Malformed ==
    [][\A l \in BadLines :
        (state = S_MSG /\ msgcnt < MAXCODE /\ Message(l, TRUE))
           => /\ ev' = <<"CEVNT_BADREPLY">>
              /\ proc' = <<>> /\ out' = <<>>
              /\ UNCHANGED <<state, timer, retry, msgcnt, fd>>]_vars

\* C15 witness: after an accepted timecode a line has been rejected.
C15_Witness ==
    /\ state = S_MSG /\ msgcnt = 1 /\ fd # NOFD
    /\ ev = <<"CEVNT_BADREPLY">> /\ proc = <<>>

\* C16: an accepted format A line sets the leap indicator to add-second for
\* leap digit 1, to delete-second for 2 and to no-warning for any other
\* digit; an accepted PTB line sets add-second for '+' and delete-second for
\* '-' only when the month of the leap is the month of the line, and
\* no-warning otherwise.
C16_Leap ==
    [][ /\ \A l \in ActsLines :
              (state = S_MSG /\ msgcnt < MAXCODE /\ Message(l, TRUE))
                 => /\ l.leap = 1 => pp'.leap = LEAP_ADDSECOND
                    /\ l.leap = 2 => pp'.leap = LEAP_DELSECOND
                    /\ l.leap \notin {1, 2} => pp'.leap = LEAP_NOWARNING
        /\ \A l \in PtbLines :
              (state = S_MSG /\ msgcnt < MAXCODE /\ Message(l, TRUE))
                 => /\ (l.leapmonth = l.month /\ l.leapdir = "+")
                          => pp'.leap = LEAP_ADDSECOND
                    /\ (l.leapmonth = l.month /\ l.leapdir = "-")
                          => pp'.leap = LEAP_DELSECOND
                    /\ (l.leapmonth # l.month \/ l.leapdir \notin {"+", "-"})
                          => pp'.leap = LEAP_NOWARNING]_vars

\* C16 witness: a PTB line that announces the deletion of a second in its
\* own month has been forwarded.
C16_Witness ==
    /\ state = S_MSG /\ Len(proc) = 1
    /\ proc[1].refid = REFPTB /\ proc[1].leap = LEAP_DELSECOND

\* C17, as stated: in the message state every line of a format that parses
\* and every accepted on-time character '*' increments msgcnt by exactly
\* one; a rejected or an ignored line leaves msgcnt as it was.
C17_CountOriginal ==
    [][/\ \A l \in GoodLines :
             (state = S_MSG /\ msgcnt < MAXCODE /\ Message(l, TRUE))
                => msgcnt' = msgcnt + 1
       /\ (state = S_MSG /\ msgcnt > 0 /\ msgcnt < MAXCODE /\ Message(Mark, TRUE))
             => msgcnt' = msgcnt + 1
       /\ \A l \in BadLines \cup IgnoredLines :
             (state = S_MSG /\ msgcnt < MAXCODE /\ Message(l, TRUE))
                => msgcnt' = msgcnt]_vars

\* C17, amended: every line of a format that parses increments msgcnt by
\* exactly one; the on-time character '*', accepted or not, a rejected line
\* and an ignored line leave msgcnt as it was.
C17_Count ==
    [][/\ \A l \in GoodLines :
             (state = S_MSG /\ msgcnt < MAXCODE /\ Message(l, TRUE))
                => msgcnt' = msgcnt + 1
       /\ \A l \in BadLines \cup IgnoredLines \cup {Mark} :
             (state = S_MSG /\ msgcnt < MAXCODE /\ Message(l, TRUE))
                => msgcnt' = msgcnt]_vars

\* C17 witness: the on-time character has forwarded the time of a Spectracom
\* format 2 line (the fraction of the second is cleared), and msgcnt is
\* still 1.
C17_Witness ==
    /\ state = S_MSG /\ msgcnt = 1 /\ Len(proc) = 1
    /\ proc[1].refid = REFTYPE /\ proc[1].leap = LEAP_ADDSECOND
    /\ proc[1].nsec = 0

\* The time of day a timecode line or a sample carries.
TimeOf(r, day) == <<day, r.hour, r.minute, r.second>>

\* C18, as stated: a line of length 1 is accepted only if it is '*' and
\* msgcnt > 0, and is otherwise ignored with no report and no change; when
\* it is accepted the sample forwarded carries the day, hour, minute, second
\* and leap indicator of a line that was parsed successfully, also when
\* rejected or ignored lines arrived in between (the parsed lines of the
\* specification carry the times A and B, so the sample carries one of the
\* two).
C18_MarkerFields ==
    [][\A acc \in BOOLEAN :
        /\ (state = S_MSG /\ msgcnt > 0 /\ msgcnt < MAXCODE /\ Message(Mark, acc))
              => /\ Len(proc') = 1
                 /\ TimeOf(proc'[1], proc'[1].day)
                       \in {TimeOf(TimeA, TimeA.yday), TimeOf(TimeB, TimeB.yday)}
                 /\ proc'[1].leap = pp.leap
        /\ \A l \in {Mark, Text("#", 1)} :
              (/\ state = S_MSG /\ msgcnt < MAXCODE
               /\ l.tok # "*" \/ msgcnt = 0
               /\ Message(l, acc))
                 => /\ proc' = <<>> /\ ev' = <<>> /\ out' = <<>>
                    /\ UNCHANGED <<state, timer, retry, msgcnt, fd, pp>>]_vars

\* C19: msgcnt never exceeds MAXCODE; a line that arrives in the message
\* state with msgcnt = MAXCODE is not parsed but runs the timeout of the
\* message state: the timecodes are handed over, the device is closed, the
\* state is Idle and the timer is 0.
C19_MessageCap ==
    [][/\ msgcnt <= MAXCODE /\ msgcnt' <= MAXCODE
       /\ \A l \in CallLines :
             (state = S_MSG /\ msgcnt = MAXCODE /\ Message(l, TRUE))
                => /\ state' = S_IDLE /\ timer' = 0 /\ fd' = NOFD
                   /\ msgcnt' = MAXCODE /\ proc' = <<>> /\ out' = <<>>
                   /\ ev' \in {<<"refclock_receive">>,
                               <<"NO", "refclock_receive">>}]_vars

\* C19 witness: NO CARRIER arrived after MAXCODE timecodes and ended the
\* call through the timeout of the message state.
C19_Witness ==
    /\ state = S_IDLE /\ timer = 0 /\ fd = NOFD /\ msgcnt = MAXCODE
    /\ ev = <<"NO", "refclock_receive">>

Type0Text == <<" ", " ", " ", "1", "0", "8", " ", "2", "1", ":", "3", "9",
               ":", "1", "5", " ", "D", "T", "Z", "=", "0", "0">>

\* The scanners read the timecodes as the lines the parser is given.
ScanAgrees ==
    /\ LineOf(UsnoText) = Usno(TimeA, NCONV_USNO)
    /\ LineOf(Type0Text) =
         [TimeA EXCEPT !.len = LENTYPE0, !.tok = "", !.nconv = NCONV_TYPE0]
    /\ ScanType0(<<"*">> \o UsnoText \o <<"#">>).nconv = 3
    /\ ScanType0(<<"*">> \o UsnoText \o <<"#">>).yday = 600
    /\ ScanUsno(SubSeq(UsnoText, 1, 14) \o <<"*", "*", "*", "*", "*", "*">>).nconv = 4

\* The stream b with its control bytes removed, split on the line feed:
\* cur is the piece being read, done the non-empty pieces already ended.
RECURSIVE SplitLines(_, _, _)
SplitLines(b, cur, done) ==
    IF b = <<>> THEN done
    ELSE IF Head(b) = LF
         THEN SplitLines(Tail(b), <<>>,
                         IF cur = <<>> THEN done ELSE Append(done, cur))
         ELSE IF IsCntrl(Head(b)) THEN SplitLines(Tail(b), cur, done)
              ELSE SplitLines(Tail(b), Append(cur, Head(b)), done)

\* C13, as stated: whatever the chunks, the lines handed to modem_message
\* are the stream with its control bytes removed, split on the line feed,
\* without the empty pieces and in order, and none is longer than the
\* buffer.
C13_RoundTrip ==
    /\ lines = SplitLines(rcvd, <<>>, <<>>)
    /\ \A i \in 1..Len(lines) : Len(lines[i]) <= BMAX

\* The on-time characters among the bytes b, in order.
RECURSIVE Markers(_)
Markers(b) ==
    IF b = <<>> THEN <<>>
    ELSE IF Head(b) \in {"*", "#"} THEN <<Head(b)>> \o Markers(Tail(b))
         ELSE Markers(Tail(b))

\* C14, as stated, for a chunk that has no zero byte and fits the free space
\* of the buffer, received in the message state: the bytes written back are
\* exactly the on-time characters '*' and '#' of the chunk, one byte each
\* and in order, and when the chunk ends with an on-time character the
\* on-time timestamp is the arrival time of the chunk.
C14_MarkerEcho ==
    [][\A c \in Chunks :
        (/\ state = S_MSG
         /\ \A i \in 1..Len(c) : c[i] # NUL
         /\ Len(c) < BMAX - Len(buf)
         /\ ReceiveChunk(c))
           => /\ out' = Markers(c)
              /\ c[Len(c)] \in {"*", "#"} => tstamp' = clock']_vars

\* What the timeout of a calling state reports.
TimeoutReports ==
    CASE state = S_SETUP -> {<<"no modem">>}
      [] state = S_CONNECT -> {<<"no answer">>}
      [] state = S_MSG -> {IF msgcnt = 0 THEN <<"no timecodes">>
                           ELSE <<"refclock_receive">>}
      [] OTHER -> {}

\* C21: a calling state is entered with its own timeout (Setup 3, Connecting
\* 60, message state 60); a tick that finds more than one second left only
\* decrements the timer; the tick that brings the timer to 0 in a calling
\* state reports the timeout of that state and runs the close sequence
\* (device closed, DTR dropped, state Idle); and no other step that stays in
\* the calling state changes the timer, so timecode lines do not restart it.
C21_Timeouts ==
    [][/\ (state' # state /\ state' = S_SETUP) => timer' = SETUP
       /\ (state' # state /\ state' = S_CONNECT) => timer' = ANSWER
       /\ (state' # state /\ state' = S_MSG) => timer' = TIMECODE
       /\ (Tick /\ timer > 1)
             => /\ timer' = timer - 1
                /\ UNCHANGED <<state, fd, dtr, msgcnt>>
                /\ ev' = <<>> /\ out' = <<>>
       /\ (Tick /\ timer = 1 /\ state # S_IDLE)
             => /\ state' = S_IDLE /\ fd' = NOFD /\ ~dtr'
                /\ ev' \in TimeoutReports
                /\ timer' \in {0, REDIAL}
       /\ (~Tick /\ alive /\ state # S_IDLE /\ state' = state)
             => timer' = timer]_vars

\* C21 witness: the call was not answered; the sixtieth tick after the dial
\* closed the device.
C21_Witness ==
    /\ state = S_IDLE /\ fd = NOFD /\ ~dtr /\ ev = <<"no answer">>
    /\ retry = 1 /\ msgcnt = 0

\* C22: the lock file of another program is never removed by this session:
\* while another program holds the lock, only that program releases it.
C22_LockRelease ==
    [][(lock = "other" /\ lock' # "other") => OtherLock]_vars

\* C23: with port locking on, a session that is Idle with the device closed
\* does not hold the lock file.
C23_NoLockIdle ==
    (flag2 /\ state = S_IDLE /\ fd = NOFD) => lock # "self"

\* C24: the device is open exactly in the calling states; in Setup the timer
\* is between 1 and 3, in Connecting and in the message state between 1 and
\* 60, in Idle between 0 and 30.  So a timer of 0, which is what lets a tick
\* run the Idle trigger, is found only in Idle with the device closed.
C24_Agree ==
    /\ (fd # NOFD) <=> (state # S_IDLE)
    /\ state = S_SETUP => timer \in 1..SETUP
    /\ state = S_CONNECT => timer \in 1..ANSWER
    /\ state = S_MSG => timer \in 1..TIMECODE
    /\ state = S_IDLE => timer \in 0..REDIAL
    /\ timer = 0 => (state = S_IDLE /\ fd = NOFD)

\* C24 witness: the last second of the message state, timecodes received.
C24_Witness ==
    state = S_MSG /\ timer = 1 /\ fd # NOFD /\ msgcnt > 0 /\ retry = 1

\* The most ticks a call attempt can still last: what is left of the timeout
\* of its state and the full timeouts of the states that may follow.
TicksLeft ==
    CASE state = S_SETUP -> timer + ANSWER + TIMECODE
      [] state = S_CONNECT -> timer + TIMECODE
      [] state = S_MSG -> timer
      [] OTHER -> 0

\* C25: a call attempt has at most 3 + 60 + 60 ticks left, at most 3 of them
\* in Setup, 60 in Connecting and 60 in the message state; every tick during
\* the attempt takes at least one of them away and no line gives any back;
\* when none is left the session is Idle with the device closed.  With the
\* ticks arriving, every attempt therefore returns to Idle.
C25_AttemptEnds ==
    /\ [](/\ TicksLeft <= SETUP + ANSWER + TIMECODE
          /\ state = S_SETUP => timer <= SETUP
          /\ state = S_CONNECT => timer <= ANSWER
          /\ state = S_MSG => timer <= TIMECODE
          /\ TicksLeft = 0 => (state = S_IDLE /\ fd = NOFD))
    /\ [][/\ (Tick /\ state # S_IDLE) => TicksLeft' <= TicksLeft - 1
          /\ state # S_IDLE => TicksLeft' <= TicksLeft]_vars
    /\ (state # S_IDLE) ~> (state = S_IDLE /\ fd = NOFD)

\* C25 witness: timecodes are still arriving in the last second of the
\* message state of the second number's call.
C25_Witness ==
    /\ state = S_MSG /\ timer = 1 /\ msgcnt > 1 /\ retry = 2 /\ proc # <<>>

\* C26: with the ticks arriving and no poll and no further flag1, the
\* redialing comes to an end: from some time on the session is Idle with
\* timer = 0 for good.
C26_RedialStops ==
    <>[](state = S_IDLE /\ timer = 0)

\* C27: in every mode a poll that finds the session in Setup, in Connecting
\* or in the message state changes nothing of the session (state, timer,
\* retry, msgcnt, the line buffer, the device and its DTR line) and writes
\* nothing to the device.
C27_PollNoOp ==
    [][(Poll /\ state # S_IDLE)
          => /\ UNCHANGED <<state, timer, retry, msgcnt, buf, fd, dtr, flag1,
                            tstamp, pp, lines>>
             /\ out' = <<>> /\ ev' = <<>> /\ proc' = <<>>]_vars

\* C27 witness: in backup mode a directly connected device sent the on-time
\* character, which was echoed, and then a poll arrived: the character is
\* still in the line buffer and nothing was written by the last step, which
\* was neither a chunk (only one came) nor a tick (the timer has not moved)
\* nor the setting of flag1.
C27_Witness ==
    /\ ttl = MODE_BACKUP /\ state = S_MSG /\ fd # NOFD
    /\ buf = <<"*">> /\ clock = 1 /\ tstamp = 1 /\ timer = TIMECODE
    /\ ~flag1 /\ out = <<>> /\ ev = <<>>

====
